---- MODULE Spec2Model ----
(***************************************************************************)
(* c3edit client (src/src/client.rs): the coordinator event loop, its      *)
(* helper tasks (incoming, outgoing, stdin, stdout, change forwarders),    *)
(* the bounded channels between them and the peer sockets, for a small     *)
(* set of client processes connected to each other.                        *)
(*                                                                         *)
(* The merge engine (loro) is modelled as a replicated growable array:     *)
(* every character is an element with a unique id <<lamport, peer>> and    *)
(* the id of the element it was typed after; deletion leaves a tombstone.  *)
(* export_from(&Default::default()) is the whole element sequence.         *)
(***************************************************************************)
EXTENDS Integers, Sequences, FiniteSets, TLC

\* ---------------------------------------------------------------- bounds
NumNodes == 2        \* client processes running this program
NumExt == 2          \* other peers on the network (any software speaking the protocol)
MaxConns == 2        \* TCP connections ever established
MaxEdits == 1        \* document commands one application sends
MaxFaults == 1       \* faults the environment injects at one node
SockCap == 2         \* frames a socket direction buffers before send suspends

\* ------------------------------------------------- program constants
StdinCap == 10       \* client.rs:69
StdoutCap == 10      \* client.rs:70
IncomingFromCap == 10 \* client.rs:72
IncomingToCap == 1   \* client.rs:74
OutgoingCap == 10    \* client.rs:75

Nodes == 1..NumNodes
ExtPeers == (NumNodes + 1)..(NumNodes + NumExt)
ConnIds == 1..MaxConns

\* ------------------------------------------------------- merge engine
Root == <<0, 0>>

IdLt(a, b) == a[1] < b[1] \/ (a[1] = b[1] /\ a[2] < b[2])

Visible(d) == SelectSeq(d, LAMBDA e : ~e.del)

\* LoroText::to_string: the characters that are not tombstones, in order
Text(d) == [i \in 1..Len(Visible(d)) |-> Visible(d)[i].ch]

TextLen(d) == Len(Visible(d))

Ids(d) == {d[i].id : i \in 1..Len(d)}

MaxLamport(d) ==
    LET ls == {0} \cup {d[i].id[1] : i \in 1..Len(d)}
    IN  CHOOSE m \in ls : \A l \in ls : l <= m

PosOf(d, id) == IF id = Root THEN 0 ELSE CHOOSE i \in 1..Len(d) : d[i].id = id

RECURSIVE SkipPos(_, _, _)
SkipPos(d, j, id) ==
    IF j <= Len(d) /\ IdLt(id, d[j].id) THEN SkipPos(d, j + 1, id) ELSE j

\* place element e after its origin, behind every later-stamped element there
Integrate(d, e) ==
    LET j == SkipPos(d, PosOf(d, e.o) + 1, e.id)
    IN  SubSeq(d, 1, j - 1) \o <<e>> \o SubSeq(d, j, Len(d))

RECURSIVE InsertChars(_, _, _, _)
InsertChars(d, n, origin, text) ==
    IF text = <<>> THEN d
    ELSE LET e == [id |-> <<MaxLamport(d) + 1, n>>, o |-> origin,
                   ch |-> Head(text), del |-> FALSE]
         IN  InsertChars(Integrate(d, e), n, e.id, Tail(text))

\* LoroText::insert(index, text) fails when index is beyond the text
InsertOk(d, index) == index <= TextLen(d)

TextInsert(d, n, index, text) ==
    InsertChars(d, n, IF index = 0 THEN Root ELSE Visible(d)[index].id, text)

\* LoroText::delete(index, len) fails when the range leaves the text
DeleteOk(d, index, len) == index + len <= TextLen(d)

TextDelete(d, index, len) ==
    LET v == Visible(d)
        dead == {v[i].id : i \in (index + 1)..(index + len)}
    IN  [i \in 1..Len(d) |->
            IF d[i].id \in dead THEN [d[i] EXCEPT !.del = TRUE] ELSE d[i]]

RECURSIVE CommonPrefix(_, _)
CommonPrefix(s, t) ==
    IF s # <<>> /\ t # <<>> /\ Head(s) = Head(t)
    THEN 1 + CommonPrefix(Tail(s), Tail(t)) ELSE 0

Rev(s) == [i \in 1..Len(s) |-> s[Len(s) + 1 - i]]

\* LoroText::update(content): keep the common prefix and suffix, replace the rest
TextUpdate(d, n, content) ==
    LET old == Text(d)
        p == CommonPrefix(old, content)
        s == CommonPrefix(Rev(SubSeq(old, p + 1, Len(old))),
                          Rev(SubSeq(content, p + 1, Len(content))))
        cut == TextDelete(d, p, Len(old) - p - s)
    IN  TextInsert(cut, n, p, SubSeq(content, p + 1, Len(content) - s))

\* faulty variant: the export starts from the current version and holds nothing
ExportFromNow(d) == <<>>

\* LoroDoc::export_from(&Default::default()): the whole history
ExportFrom(d) == d

RECURSIVE AddMissing(_, _)
AddMissing(d, p) ==
    LET miss == {i \in 1..Len(p) : p[i].id \notin Ids(d)}
    IN  IF miss = {} THEN d
        ELSE LET i == CHOOSE k \in miss :
                          \A j \in miss : k = j \/ IdLt(p[k].id, p[j].id)
             IN  AddMissing(Integrate(d, [p[i] EXCEPT !.del = FALSE]), p)

\* faulty variant: the payload's elements are added again without looking for
\* the ones the document already holds
ImportNoDedup(d, p) == d \o p

\* LoroDoc::import(bytes): add the unknown elements, join the tombstones
Import(d, p) ==
    LET all == AddMissing(d, p)
        dead == {p[i].id : i \in {k \in 1..Len(p) : p[k].del}}
    IN  [i \in 1..Len(all) |->
            IF all[i].id \in dead THEN [all[i] EXCEPT !.del = TRUE] ELSE all[i]]

\* loro's TextDelta spans of one merge: old document against the merged one
SpanOf(old, e) ==
    LET was == \E i \in 1..Len(old) : old[i].id = e.id /\ ~old[i].del
    IN  IF was /\ ~e.del THEN <<[t |-> "retain", n |-> 1, s |-> <<>>]>>
        ELSE IF ~was /\ ~e.del THEN <<[t |-> "insert", n |-> 1, s |-> <<e.ch>>]>>
        ELSE IF was /\ e.del THEN <<[t |-> "delete", n |-> 1, s |-> <<>>]>>
        ELSE <<>>

RECURSIVE RawSpans(_, _)
RawSpans(old, new) ==
    IF new = <<>> THEN <<>> ELSE SpanOf(old, Head(new)) \o RawSpans(old, Tail(new))

RECURSIVE Coalesce(_)
Coalesce(sp) ==
    IF Len(sp) < 2 THEN sp
    ELSE IF sp[1].t = sp[2].t
         THEN Coalesce(<<[t |-> sp[1].t, n |-> sp[1].n + sp[2].n,
                          s |-> sp[1].s \o sp[2].s]>> \o SubSeq(sp, 3, Len(sp)))
         ELSE <<sp[1]>> \o Coalesce(Tail(sp))

RECURSIVE ChopRetain(_)
ChopRetain(sp) ==
    IF sp # <<>> /\ sp[Len(sp)].t = "retain"
    THEN ChopRetain(SubSeq(sp, 1, Len(sp) - 1)) ELSE sp

Diff(old, new) == ChopRetain(Coalesce(RawSpans(old, new)))

\* ---------------------------------------------------------- messages
PeerAddedMsg(addr) == [type |-> "peer_added", address |-> addr]
AddPeerMsg(addr) == [type |-> "add_peer", address |-> addr]
CreateDocumentMsg(c) == [type |-> "create_document", initial_content |-> c]
InsertChange(i, t) == [type |-> "insert", index |-> i, text |-> t]
DeleteChange(i, l) == [type |-> "delete", index |-> i, len |-> l]
ChangeMsg(ch) == [type |-> "change", change |-> ch]

\* ---------------------------------------------------- change notifier
RECURSIVE WalkDiffs(_, _)
WalkDiffs(diffs, index) ==
    IF diffs = <<>> THEN <<>>
    ELSE LET h == Head(diffs)
         IN  IF h.t = "retain" THEN WalkDiffs(Tail(diffs), index + h.n)
             ELSE IF h.t = "insert"
                  THEN <<InsertChange(index, h.s)>> \o WalkDiffs(Tail(diffs), index)
                  ELSE <<DeleteChange(index, h.n)>> \o WalkDiffs(Tail(diffs), index)

\* faulty variant: the running index is advanced by insert spans as well
RECURSIVE WalkDiffsPastInserts(_, _)
WalkDiffsPastInserts(diffs, index) ==
    IF diffs = <<>> THEN <<>>
    ELSE LET h == Head(diffs)
         IN  IF h.t = "retain" THEN WalkDiffsPastInserts(Tail(diffs), index + h.n)
             ELSE IF h.t = "insert"
                  THEN <<InsertChange(index, h.s)>>
                       \o WalkDiffsPastInserts(Tail(diffs), index + h.n)
                  ELSE <<DeleteChange(index, h.n)>>
                       \o WalkDiffsPastInserts(Tail(diffs), index)

DocChangesPastInserts(isImport, diffs) ==
    IF ~isImport THEN <<>> ELSE WalkDiffsPastInserts(diffs, 0)

DocChangesUnfiltered(isImport, diffs) == WalkDiffs(diffs, 0)

\* the subscription callback: nothing unless the merge was an import
DocChanges(isImport, diffs) == IF ~isImport THEN <<>> ELSE WalkDiffs(diffs, 0)

\* --------------------------------------------------------------- state
VARIABLES
    up,        \* up[n]: the process of node n is running (its main task has not panicked)
    doc,       \* doc[n]: Client.doc, the element sequence of node n
    cpc,       \* cpc[n]: where the coordinator (begin_event_loop) stands
    creg,      \* creg[n]: what the coordinator holds across an await: [c, data]
    stdinCh,   \* stdin_task_channel, stdin task -> coordinator
    stdoutCh,  \* stdout_task_channel, everyone -> stdout task
    inFromCh,  \* incoming_task_from_channel, read loops -> coordinator
    inToCh,    \* incoming_task_to_channel, coordinator -> incoming task (read halves)
    outCh,     \* outgoing_task_channel, coordinator -> outgoing task
    stdinUp,   \* the stdin task is running
    readers,   \* readers[n]: connections whose read loop runs on node n
    sockets,   \* the outgoing task's Vec of write halves
    bpc,       \* outgoing task: "recv", "send" (inside the for loop), "dead"
    breg,      \* outgoing task: [msg, idx] of the broadcast in progress
    fwd,       \* fwd[n]: the change-forwarding tasks spawned by the subscription
    written,   \* lines the stdout task has written
    conns,     \* established TCP connections: [d |-> dialer, a |-> acceptor]
    accepted,  \* accepted[c]: the acceptor's listener has returned connection c
    half,      \* half[c][side]: [rd, wr], the halves of that end that are not dropped
    net,       \* net[c][side]: frames buffered on their way to that side
    budget,    \* budget[n]: lines and faults the environment may still give node n
    egLog,     \* history: every message enqueued on stdout_task_channel, with its merge
    sentLog,   \* history: every frame a node's outgoing task handed to a socket
    nexp,      \* history: exports made by node n
    nimp,      \* history: imports made by node n
    reg,       \* history: reg[c][side]: [rd, wr], halves handed to their router
    cmdLog,    \* history: the stdin messages node n's coordinator has handled
    expLog,    \* history: the payloads node n's coordinator enqueued for broadcast
    bcastLog,  \* history: the payloads node n's outgoing task took, with its pool
    impLog,    \* history: the payloads <<from, k>> node n's coordinator imported
    mergeLog,  \* history: per import of node n, the payload, the text before and
               \* after, and the diff handed to the subscription callback
    failed     \* history: the call of node n's coordinator that returned Err, if any

nodeVars == <<doc, cpc, creg, stdinCh, stdoutCh, inFromCh, inToCh, outCh,
              stdinUp, readers, sockets, bpc, breg, fwd, written>>
netVars == <<conns, accepted, half, net>>
histVars == <<egLog, sentLog, nexp, nimp, reg, cmdLog, expLog, bcastLog, impLog, mergeLog>>
vars == <<up, nodeVars, netVars, budget, histVars, failed>>

Sides == {"d", "a"}
Other(s) == IF s = "d" THEN "a" ELSE "d"
SideOf(c, n) == IF conns[c].d = n THEN "d" ELSE "a"
PeerOf(c, n) == IF conns[c].d = n THEN conns[c].a ELSE conns[c].d
NoHalves == [rd |-> FALSE, wr |-> FALSE]
BothHalves == [rd |-> TRUE, wr |-> TRUE]
NoReg == [c |-> 0, data |-> <<>>]
Idle == [msg |-> <<>>, idx |-> 0]

\* the remote end of c, seen from side s, still has its socket open
RemoteOpen(c, s) == half[c][Other(s)].rd \/ half[c][Other(s)].wr

InitWith(b) ==
    /\ up = [n \in Nodes |-> TRUE]
    /\ doc = [n \in Nodes |-> <<>>]
    /\ cpc = [n \in Nodes |-> "select"]
    /\ creg = [n \in Nodes |-> NoReg]
    /\ stdinCh = [n \in Nodes |-> <<>>]
    /\ stdoutCh = [n \in Nodes |-> <<>>]
    /\ inFromCh = [n \in Nodes |-> <<>>]
    /\ inToCh = [n \in Nodes |-> <<>>]
    /\ outCh = [n \in Nodes |-> <<>>]
    /\ stdinUp = [n \in Nodes |-> TRUE]
    /\ readers = [n \in Nodes |-> {}]
    /\ sockets = [n \in Nodes |-> <<>>]
    /\ bpc = [n \in Nodes |-> "recv"]
    /\ breg = [n \in Nodes |-> Idle]
    /\ fwd = [n \in Nodes |-> <<>>]
    /\ written = [n \in Nodes |-> <<>>]
    /\ conns = <<>>
    /\ accepted = [c \in ConnIds |-> FALSE]
    /\ half = [c \in ConnIds |-> [s \in Sides |-> NoHalves]]
    /\ net = [c \in ConnIds |-> [s \in Sides |-> <<>>]]
    /\ budget = b
    /\ egLog = [n \in Nodes |-> <<>>]
    /\ sentLog = [n \in Nodes |-> <<>>]
    /\ nexp = [n \in Nodes |-> 0]
    /\ nimp = [n \in Nodes |-> 0]
    /\ reg = [c \in ConnIds |-> [s \in Sides |-> NoHalves]]
    /\ cmdLog = [n \in Nodes |-> <<>>]
    /\ expLog = [n \in Nodes |-> <<>>]
    /\ bcastLog = [n \in Nodes |-> <<>>]
    /\ impLog = [n \in Nodes |-> {}]
    /\ mergeLog = [n \in Nodes |-> <<>>]
    /\ failed = [n \in Nodes |-> "none"]

\* what the environment of one node may do: lines of each kind its application
\* sends, the addresses it dials, external peers dialling in, frames they send
Allow(e, d, ps, f, xd, xps, xs) ==
    [edit |-> e, dial |-> d, peers |-> ps, fault |-> f,
     xdial |-> xd, xpeers |-> xps, xsend |-> xs]
Quiet == Allow(0, 0, {}, 0, 0, {}, 0)

FirstExt == NumNodes + 1
LastExt == NumNodes + NumExt

\* one client among external peers: it dials one, another dials in
Init == InitWith([n \in Nodes |->
                    IF n = 1
                    THEN Allow(MaxEdits, 1, {FirstExt}, MaxFaults,
                               MaxConns - 1, {LastExt}, 1)
                    ELSE Quiet])

\* a call of the coordinator returns Err ("dial": TcpStream::connect, "op":
\* insert/delete, "chan": outgoing_tx.send) and unwrap panics the main task:
\* the process ends and every socket end it owns closes
Crash(n, why) ==
    /\ up' = [up EXCEPT ![n] = FALSE]
    /\ failed' = [failed EXCEPT ![n] = why]
    /\ half' = [c \in ConnIds |-> [s \in Sides |->
                  IF c <= Len(conns) /\ conns[c][s] = n THEN NoHalves ELSE half[c][s]]]

\* ------------------------------------------------------ control gateway
EditLines ==
    {ChangeMsg(InsertChange(0, <<"x">>)), ChangeMsg(DeleteChange(0, 1)),
     CreateDocumentMsg(<<"a", "b">>)}

Unreachable == 0
BadLine == [type |-> "garbage"]

DialLines(n) == {AddPeerMsg(m) : m \in budget[n].peers}
FaultLines(n) == {BadLine, AddPeerMsg(Unreachable), PeerAddedMsg(Unreachable)}

CostOf(line) ==
    IF line \in EditLines THEN "edit"
    ELSE IF line.type = "add_peer" /\ line.address # Unreachable THEN "dial"
    ELSE "fault"

\* begin_stdin_task: one line read, parsed and sent to the coordinator
StdinTake(n, line) ==
    /\ up[n] /\ stdinUp[n]
    /\ Len(stdinCh[n]) < StdinCap
    /\ IF line = BadLine
       THEN /\ stdinUp' = [stdinUp EXCEPT ![n] = FALSE]
            /\ UNCHANGED stdinCh
       ELSE /\ stdinCh' = [stdinCh EXCEPT ![n] = Append(@, line)]
            /\ UNCHANGED stdinUp
    /\ UNCHANGED <<up, doc, cpc, creg, stdoutCh, inFromCh, inToCh, outCh, readers,
                   sockets, bpc, breg, fwd, written, netVars, histVars, failed>>

StdinRead(n) ==
    \E line \in EditLines \cup DialLines(n) \cup FaultLines(n) :
        /\ budget[n][CostOf(line)] > 0
        /\ budget' = [budget EXCEPT ![n][CostOf(line)] = @ - 1]
        /\ StdinTake(n, line)

\* begin_stdout_task: one message received and written as one line
StdoutWrite(n) ==
    /\ up[n]
    /\ stdoutCh[n] # <<>>
    /\ written' = [written EXCEPT ![n] = Append(@, Head(stdoutCh[n]))]
    /\ stdoutCh' = [stdoutCh EXCEPT ![n] = Tail(@)]
    /\ UNCHANGED <<up, doc, cpc, creg, stdinCh, inFromCh, inToCh, outCh, stdinUp,
                   readers, sockets, bpc, breg, fwd, netVars, budget, histVars,
                   failed>>

\* faulty variant: the forwarding task uses try_send and drops the change
\* when the channel is full
ForwardLossy(n, i) ==
    /\ up[n]
    /\ i \in 1..Len(fwd[n])
    /\ LET t == fwd[n][i]
           m == ChangeMsg(Head(t.changes))
           rest == [t EXCEPT !.changes = Tail(@)]
           room == Len(stdoutCh[n]) < StdoutCap
       IN  /\ stdoutCh' = [stdoutCh EXCEPT ![n] = IF room THEN Append(@, m) ELSE @]
           /\ egLog' = [egLog EXCEPT ![n] =
                          IF room THEN Append(@, [msg |-> m, merge |-> t.merge,
                                                  c |-> t.via])
                          ELSE @]
           /\ fwd' = [fwd EXCEPT ![n] =
                        IF rest.changes = <<>>
                        THEN SubSeq(@, 1, i - 1) \o SubSeq(@, i + 1, Len(@))
                        ELSE [@ EXCEPT ![i] = rest]]
    /\ UNCHANGED <<up, doc, cpc, creg, stdinCh, inFromCh, inToCh, outCh, stdinUp,
                   readers, sockets, bpc, breg, written, netVars, budget, sentLog,
                   nexp, nimp, reg, cmdLog, expLog, bcastLog, impLog, mergeLog,
                   failed>>

\* the task the subscription callback spawns (client.rs:222-228): one change sent
Forward(n, i) ==
    /\ up[n]
    /\ i \in 1..Len(fwd[n])
    /\ Len(stdoutCh[n]) < StdoutCap
    /\ LET t == fwd[n][i]
           m == ChangeMsg(Head(t.changes))
           rest == [t EXCEPT !.changes = Tail(@)]
       IN  /\ stdoutCh' = [stdoutCh EXCEPT ![n] = Append(@, m)]
           /\ egLog' = [egLog EXCEPT ![n] = Append(@, [msg |-> m, merge |-> t.merge,
                                                    c |-> t.via])]
           /\ fwd' = [fwd EXCEPT ![n] =
                        IF rest.changes = <<>>
                        THEN SubSeq(@, 1, i - 1) \o SubSeq(@, i + 1, Len(@))
                        ELSE [@ EXCEPT ![i] = rest]]
    /\ UNCHANGED <<up, doc, cpc, creg, stdinCh, inFromCh, inToCh, outCh, stdinUp,
                   readers, sockets, bpc, breg, written, netVars, budget, sentLog,
                   nexp, nimp, reg, cmdLog, expLog, bcastLog, impLog, mergeLog,
                   failed>>

\* what doc.subscribe_root's callback does with one merge: spawn a forwarder
Notify(n, isImport, old, new, merge, via) ==
    LET changes == DocChanges(isImport, Diff(old, new))
    IN  fwd' = [fwd EXCEPT ![n] =
                  IF changes = <<>> THEN @
                  ELSE Append(@, [merge |-> merge, via |-> via,
                                  changes |-> changes])]

\* --------------------------------------------------- connection manager
\* faulty variant: the write half is never handed to the outgoing task
SkipWriteHalf(n, next) ==
    /\ cpc' = [cpc EXCEPT ![n] = next]
    /\ UNCHANGED <<up, doc, creg, stdinCh, stdoutCh, inFromCh, inToCh, outCh, stdinUp,
                   readers, sockets, bpc, breg, fwd, written, netVars, budget,
                   histVars, failed>>

\* incoming_to_tx.send(read_framed).await (client.rs:249, 290)
SendReadHalf(n, next) ==
    /\ Len(inToCh[n]) < IncomingToCap
    /\ inToCh' = [inToCh EXCEPT ![n] = Append(@, creg[n].c)]
    /\ reg' = [reg EXCEPT ![creg[n].c][SideOf(creg[n].c, n)].rd = TRUE]
    /\ cpc' = [cpc EXCEPT ![n] = next]
    /\ UNCHANGED <<up, doc, creg, stdinCh, stdoutCh, inFromCh, outCh, stdinUp,
                   readers, sockets, bpc, breg, fwd, written, netVars, budget,
                   egLog, sentLog, nexp, nimp, cmdLog, expLog, bcastLog, impLog, mergeLog,
                   failed>>

\* outgoing_tx.send(NewSocket(write_framed)).await.unwrap() (client.rs:250, 291)
SendWriteHalf(n, next) ==
    IF bpc[n] = "dead"
    THEN /\ Crash(n, "chan")
         /\ UNCHANGED <<nodeVars, conns, accepted, net, budget, histVars>>
    ELSE /\ Len(outCh[n]) < OutgoingCap
         /\ outCh' = [outCh EXCEPT ![n] = Append(@, [kind |-> "sock", c |-> creg[n].c])]
         /\ reg' = [reg EXCEPT ![creg[n].c][SideOf(creg[n].c, n)].wr = TRUE]
         /\ cpc' = [cpc EXCEPT ![n] = next]
         /\ UNCHANGED <<up, doc, creg, stdinCh, stdoutCh, inFromCh, inToCh, stdinUp,
                        readers, sockets, bpc, breg, fwd, written, netVars, budget,
                        egLog, sentLog, nexp, nimp, cmdLog, expLog, bcastLog, impLog, mergeLog,
                   failed>>

\* faulty variant: the coordinator returns to select! without announcing the peer
SkipPeerAdded(n, address) ==
    /\ cpc' = [cpc EXCEPT ![n] = "select"]
    /\ creg' = [creg EXCEPT ![n] = NoReg]
    /\ UNCHANGED <<up, doc, stdinCh, stdoutCh, inFromCh, inToCh, outCh, stdinUp,
                   readers, sockets, bpc, breg, fwd, written, netVars, budget,
                   histVars, failed>>

\* stdout_tx.send(PeerAdded { address }).await (client.rs:256, 298)
SendPeerAdded(n, address) ==
    /\ Len(stdoutCh[n]) < StdoutCap
    /\ stdoutCh' = [stdoutCh EXCEPT ![n] = Append(@, PeerAddedMsg(address))]
    /\ egLog' = [egLog EXCEPT ![n] =
                   Append(@, [msg |-> PeerAddedMsg(address), merge |-> 0,
                              c |-> creg[n].c])]
    /\ cpc' = [cpc EXCEPT ![n] = "select"]
    /\ creg' = [creg EXCEPT ![n] = NoReg]
    /\ UNCHANGED <<up, doc, stdinCh, inFromCh, inToCh, outCh, stdinUp, readers,
                   sockets, bpc, breg, fwd, written, netVars, budget, sentLog,
                   nexp, nimp, reg, cmdLog, expLog, bcastLog, impLog, mergeLog,
                   failed>>

\* select! arm 1: listener.accept() returned a connection
Accept(n) ==
    /\ up[n] /\ cpc[n] = "select"
    /\ \E c \in 1..Len(conns) :
        /\ conns[c].a = n /\ ~accepted[c]
        /\ accepted' = [accepted EXCEPT ![c] = TRUE]
        /\ creg' = [creg EXCEPT ![n] = [c |-> c, data |-> <<>>]]
    /\ cpc' = [cpc EXCEPT ![n] = "acc_read"]
    /\ UNCHANGED <<up, doc, stdinCh, stdoutCh, inFromCh, inToCh, outCh, stdinUp,
                   readers, sockets, bpc, breg, fwd, written, conns, half, net,
                   budget, histVars, failed>>

AcceptRegRead(n) == up[n] /\ cpc[n] = "acc_read" /\ SendReadHalf(n, "acc_write")
AcceptRegWrite(n) == up[n] /\ cpc[n] = "acc_write" /\ SendWriteHalf(n, "acc_added")
AcceptPeerAdded(n) ==
    up[n] /\ cpc[n] = "acc_added" /\ SendPeerAdded(n, PeerOf(creg[n].c, n))

\* handle_stdin_message, AddPeer: TcpStream::connect(&address).await.unwrap()
HandleAddPeer(n) ==
    /\ up[n] /\ cpc[n] = "select"
    /\ stdinCh[n] # <<>> /\ Head(stdinCh[n]).type = "add_peer"
    /\ LET address == Head(stdinCh[n]).address
           c == Len(conns) + 1
       IN  IF address \notin ExtPeers /\ (address \notin Nodes \/ ~up[address])
           THEN /\ Crash(n, "dial")
                /\ UNCHANGED <<nodeVars, conns, accepted, net, budget, histVars>>
           ELSE /\ conns' = Append(conns, [d |-> n, a |-> address])
                /\ half' = [half EXCEPT ![c] = [s \in Sides |-> BothHalves]]
                /\ stdinCh' = [stdinCh EXCEPT ![n] = Tail(@)]
                /\ cpc' = [cpc EXCEPT ![n] = "dial_read"]
                /\ creg' = [creg EXCEPT ![n] = [c |-> c, data |-> <<>>]]
                /\ cmdLog' = [cmdLog EXCEPT ![n] = Append(@, Head(stdinCh[n]))]
                /\ UNCHANGED <<up, doc, stdoutCh, inFromCh, inToCh, outCh, stdinUp,
                               readers, sockets, bpc, breg, fwd, written, accepted,
                               net, budget, egLog, sentLog, nexp, nimp, reg, expLog,
                               bcastLog, impLog, mergeLog, failed>>

DialRegRead(n) == up[n] /\ cpc[n] = "dial_read" /\ SendReadHalf(n, "dial_write")
DialRegWrite(n) == up[n] /\ cpc[n] = "dial_write" /\ SendWriteHalf(n, "dial_added")
DialPeerAdded(n) ==
    up[n] /\ cpc[n] = "dial_added" /\ SendPeerAdded(n, PeerOf(creg[n].c, n))

\* ------------------------------------------------- document coordinator
\* faulty variant: the PeerAdded read from stdin is passed on to stdout
HandlePeerAddedEcho(n) ==
    /\ up[n] /\ cpc[n] = "select"
    /\ stdinCh[n] # <<>> /\ Head(stdinCh[n]).type = "peer_added"
    /\ Len(stdoutCh[n]) < StdoutCap
    /\ stdinCh' = [stdinCh EXCEPT ![n] = Tail(@)]
    /\ stdoutCh' = [stdoutCh EXCEPT ![n] = Append(@, Head(stdinCh[n]))]
    /\ cmdLog' = [cmdLog EXCEPT ![n] = Append(@, Head(stdinCh[n]))]
    /\ UNCHANGED <<up, doc, cpc, creg, inFromCh, inToCh, outCh, stdinUp,
                   readers, sockets, bpc, breg, fwd, written, netVars, budget,
                   egLog, sentLog, nexp, nimp, reg, expLog, bcastLog, impLog,
                   mergeLog, failed>>

\* handle_stdin_message, PeerAdded: error!() and nothing else
HandlePeerAdded(n) ==
    /\ up[n] /\ cpc[n] = "select"
    /\ stdinCh[n] # <<>> /\ Head(stdinCh[n]).type = "peer_added"
    /\ stdinCh' = [stdinCh EXCEPT ![n] = Tail(@)]
    /\ cmdLog' = [cmdLog EXCEPT ![n] = Append(@, Head(stdinCh[n]))]
    /\ UNCHANGED <<up, doc, cpc, creg, stdoutCh, inFromCh, inToCh, outCh, stdinUp,
                   readers, sockets, bpc, breg, fwd, written, netVars, budget,
                   egLog, sentLog, nexp, nimp, reg, expLog, bcastLog, impLog, mergeLog, failed>>

\* faulty variant: the export is taken before the mutation is applied
MutatedExportsOld(n, new) ==
    /\ doc' = [doc EXCEPT ![n] = new]
    /\ nexp' = [nexp EXCEPT ![n] = @ + 1]
    /\ Notify(n, FALSE, doc[n], new, 0, 0)
    /\ creg' = [creg EXCEPT ![n] =
                  [c |-> 0, data |-> [from |-> n, k |-> nexp[n] + 1,
                                      data |-> ExportFrom(doc[n])]]]
    /\ cpc' = [cpc EXCEPT ![n] = "bcast"]
    /\ stdinCh' = [stdinCh EXCEPT ![n] = Tail(@)]
    /\ cmdLog' = [cmdLog EXCEPT ![n] = Append(@, Head(stdinCh[n]))]
    /\ UNCHANGED <<up, stdoutCh, inFromCh, inToCh, outCh, stdinUp, readers, sockets,
                   bpc, breg, written, netVars, budget, egLog, sentLog, nimp, reg,
                   expLog, bcastLog, impLog, mergeLog, failed>>

\* the mutation is done and exported; the payload waits for outgoing_tx.send
Mutated(n, new) ==
    /\ doc' = [doc EXCEPT ![n] = new]
    /\ nexp' = [nexp EXCEPT ![n] = @ + 1]
    /\ Notify(n, FALSE, doc[n], new, 0, 0)
    /\ creg' = [creg EXCEPT ![n] =
                  [c |-> 0, data |-> [from |-> n, k |-> nexp[n] + 1,
                                      data |-> ExportFrom(new)]]]
    /\ cpc' = [cpc EXCEPT ![n] = "bcast"]
    /\ stdinCh' = [stdinCh EXCEPT ![n] = Tail(@)]
    /\ cmdLog' = [cmdLog EXCEPT ![n] = Append(@, Head(stdinCh[n]))]
    /\ UNCHANGED <<up, stdoutCh, inFromCh, inToCh, outCh, stdinUp, readers, sockets,
                   bpc, breg, written, netVars, budget, egLog, sentLog, nimp, reg,
                   expLog, bcastLog, impLog, mergeLog, failed>>

\* handle_stdin_message, Change: insert/delete(..).unwrap(), then export
HandleChange(n) ==
    /\ up[n] /\ cpc[n] = "select"
    /\ stdinCh[n] # <<>> /\ Head(stdinCh[n]).type = "change"
    /\ LET ch == Head(stdinCh[n]).change
           ok == IF ch.type = "insert" THEN InsertOk(doc[n], ch.index)
                 ELSE DeleteOk(doc[n], ch.index, ch.len)
       IN  IF ok
           THEN Mutated(n, IF ch.type = "insert"
                           THEN TextInsert(doc[n], n, ch.index, ch.text)
                           ELSE TextDelete(doc[n], ch.index, ch.len))
           ELSE /\ Crash(n, "op")
                /\ UNCHANGED <<nodeVars, conns, accepted, net, budget, histVars>>

\* handle_stdin_message, CreateDocument: update(&initial_content), then export
HandleCreateDocument(n) ==
    /\ up[n] /\ cpc[n] = "select"
    /\ stdinCh[n] # <<>> /\ Head(stdinCh[n]).type = "create_document"
    /\ Mutated(n, TextUpdate(doc[n], n, Head(stdinCh[n]).initial_content))

\* outgoing_tx.send(DocumentData(export)).await.unwrap() (client.rs:314, 324)
SendExport(n) ==
    /\ up[n] /\ cpc[n] = "bcast"
    /\ IF bpc[n] = "dead"
       THEN /\ Crash(n, "chan")
            /\ UNCHANGED <<nodeVars, conns, accepted, net, budget, histVars>>
       ELSE /\ Len(outCh[n]) < OutgoingCap
            /\ outCh' = [outCh EXCEPT ![n] =
                           Append(@, [kind |-> "data", p |-> creg[n].data])]
            /\ expLog' = [expLog EXCEPT ![n] =
                            Append(@, [k |-> creg[n].data.k, data |-> creg[n].data.data,
                                       regd |-> {c \in 1..Len(conns) :
                                                   /\ n \in {conns[c].d, conns[c].a}
                                                   /\ reg[c][SideOf(c, n)].wr}])]
            /\ cpc' = [cpc EXCEPT ![n] = "select"]
            /\ creg' = [creg EXCEPT ![n] = NoReg]
            /\ UNCHANGED <<up, doc, stdinCh, stdoutCh, inFromCh, inToCh, stdinUp,
                           readers, sockets, bpc, breg, fwd, written, netVars,
                           budget, egLog, sentLog, nexp, nimp, reg, cmdLog, bcastLog, impLog, mergeLog,
                           failed>>

\* faulty variant: the coordinator re-broadcasts after an import
ImportDataRebroadcast(n) ==
    /\ up[n] /\ cpc[n] = "select"
    /\ inFromCh[n] # <<>>
    /\ Len(outCh[n]) < OutgoingCap /\ bpc[n] # "dead"
    /\ LET new == Import(doc[n], Head(inFromCh[n]).data)
       IN  /\ doc' = [doc EXCEPT ![n] = new]
           /\ Notify(n, TRUE, doc[n], new, nimp[n] + 1, Head(inFromCh[n]).via)
           /\ outCh' = [outCh EXCEPT ![n] =
                          Append(@, [kind |-> "data",
                                     p |-> [from |-> n, k |-> nexp[n],
                                            data |-> ExportFrom(new)]])]
    /\ nimp' = [nimp EXCEPT ![n] = @ + 1]
    /\ impLog' = [impLog EXCEPT ![n] =
                    @ \cup {<<Head(inFromCh[n]).from, Head(inFromCh[n]).k>>}]
    /\ mergeLog' = [mergeLog EXCEPT ![n] =
                      Append(@, [from |-> Head(inFromCh[n]).from,
                                 k |-> Head(inFromCh[n]).k,
                                 data |-> Head(inFromCh[n]).data,
                                 via |-> Head(inFromCh[n]).via,
                                 old |-> Text(doc[n]),
                                 new |-> Text(Import(doc[n], Head(inFromCh[n]).data)),
                                 diffs |-> Diff(doc[n], Import(doc[n], Head(inFromCh[n]).data))])]
    /\ inFromCh' = [inFromCh EXCEPT ![n] = Tail(@)]
    /\ UNCHANGED <<up, cpc, creg, stdinCh, stdoutCh, inToCh, stdinUp, readers,
                   sockets, bpc, breg, written, netVars, budget, egLog, sentLog,
                   nexp, reg, cmdLog, expLog, bcastLog, failed>>

\* faulty variant: the payload is received and dropped, the document left as it was
ImportDataDiscard(n) ==
    /\ up[n] /\ cpc[n] = "select"
    /\ inFromCh[n] # <<>>
    /\ nimp' = [nimp EXCEPT ![n] = @ + 1]
    /\ impLog' = [impLog EXCEPT ![n] =
                    @ \cup {<<Head(inFromCh[n]).from, Head(inFromCh[n]).k>>}]
    /\ mergeLog' = [mergeLog EXCEPT ![n] =
                      Append(@, [from |-> Head(inFromCh[n]).from,
                                 k |-> Head(inFromCh[n]).k,
                                 data |-> Head(inFromCh[n]).data,
                                 via |-> Head(inFromCh[n]).via,
                                 old |-> Text(doc[n]),
                                 new |-> Text(doc[n]),
                                 diffs |-> Diff(doc[n], doc[n])])]
    /\ inFromCh' = [inFromCh EXCEPT ![n] = Tail(@)]
    /\ UNCHANGED <<up, doc, cpc, creg, stdinCh, stdoutCh, inToCh, outCh, stdinUp,
                   readers, sockets, bpc, breg, fwd, written, netVars, budget,
                   egLog, sentLog, nexp, reg, cmdLog, expLog, bcastLog, failed>>

\* select! arm 3: doc.import(&data), which runs the subscription callback
ImportData(n) ==
    /\ up[n] /\ cpc[n] = "select"
    /\ inFromCh[n] # <<>>
    /\ LET new == Import(doc[n], Head(inFromCh[n]).data)
       IN  /\ doc' = [doc EXCEPT ![n] = new]
           /\ Notify(n, TRUE, doc[n], new, nimp[n] + 1, Head(inFromCh[n]).via)
    /\ nimp' = [nimp EXCEPT ![n] = @ + 1]
    /\ impLog' = [impLog EXCEPT ![n] =
                    @ \cup {<<Head(inFromCh[n]).from, Head(inFromCh[n]).k>>}]
    /\ mergeLog' = [mergeLog EXCEPT ![n] =
                      Append(@, [from |-> Head(inFromCh[n]).from,
                                 k |-> Head(inFromCh[n]).k,
                                 data |-> Head(inFromCh[n]).data,
                                 via |-> Head(inFromCh[n]).via,
                                 old |-> Text(doc[n]),
                                 new |-> Text(Import(doc[n], Head(inFromCh[n]).data)),
                                 diffs |-> Diff(doc[n], Import(doc[n], Head(inFromCh[n]).data))])]
    /\ inFromCh' = [inFromCh EXCEPT ![n] = Tail(@)]
    /\ UNCHANGED <<up, cpc, creg, stdinCh, stdoutCh, inToCh, outCh, stdinUp, readers,
                   sockets, bpc, breg, written, netVars, budget, egLog, sentLog,
                   nexp, reg, cmdLog, expLog, bcastLog, failed>>

\* --------------------------------------------------- inbound sync router
\* begin_incoming_task, outer loop: a read half received, its read loop spawned
SpawnReader(n) ==
    /\ up[n]
    /\ inToCh[n] # <<>>
    /\ readers' = [readers EXCEPT ![n] = @ \cup {Head(inToCh[n])}]
    /\ inToCh' = [inToCh EXCEPT ![n] = Tail(@)]
    /\ UNCHANGED <<up, doc, cpc, creg, stdinCh, stdoutCh, inFromCh, outCh, stdinUp,
                   sockets, bpc, breg, fwd, written, netVars, budget, histVars,
                   failed>>

\* the read loop of connection c ends (or panics): its read half is dropped
ReaderGone(n, c) ==
    /\ readers' = [readers EXCEPT ![n] = @ \ {c}]
    /\ half' = [half EXCEPT ![c][SideOf(c, n)].rd = FALSE]

\* read loop: socket.try_next() gave a DocumentSync, its data sent to the coordinator
ReadFrame(n, c) ==
    /\ up[n] /\ c \in readers[n]
    /\ LET s == SideOf(c, n)
       IN  /\ net[c][s] # <<>> /\ ~Head(net[c][s]).bad
           /\ Len(inFromCh[n]) < IncomingFromCap
           /\ inFromCh' = [inFromCh EXCEPT ![n] =
                             Append(@, [from |-> Head(net[c][s]).p.from,
                                        k |-> Head(net[c][s]).p.k,
                                        data |-> Head(net[c][s]).p.data,
                                        via |-> c])]
           /\ net' = [net EXCEPT ![c][s] = Tail(@)]
    /\ UNCHANGED <<up, doc, cpc, creg, stdinCh, stdoutCh, inToCh, outCh, stdinUp,
                   readers, sockets, bpc, breg, fwd, written, conns, accepted, half,
                   budget, histVars, failed>>

\* read loop: try_next() gave Err on a frame that does not decode; unwrap panics
ReadMalformed(n, c) ==
    /\ up[n] /\ c \in readers[n]
    /\ LET s == SideOf(c, n)
       IN  /\ net[c][s] # <<>> /\ Head(net[c][s]).bad
           /\ net' = [net EXCEPT ![c][s] = Tail(@)]
    /\ ReaderGone(n, c)
    /\ UNCHANGED <<up, doc, cpc, creg, stdinCh, stdoutCh, inFromCh, inToCh, outCh,
                   stdinUp, sockets, bpc, breg, fwd, written, conns, accepted,
                   budget, histVars, failed>>

\* read loop: try_next() gave None (or Err), the peer has closed its sending side
ReadEof(n, c) ==
    /\ up[n] /\ c \in readers[n]
    /\ net[c][SideOf(c, n)] = <<>>
    /\ ~half[c][Other(SideOf(c, n))].wr
    /\ ReaderGone(n, c)
    /\ UNCHANGED <<up, doc, cpc, creg, stdinCh, stdoutCh, inFromCh, inToCh, outCh,
                   stdinUp, sockets, bpc, breg, fwd, written, conns, accepted, net,
                   budget, histVars, failed>>

\* ------------------------------------------------------- external peers
\* an external peer connects to node n's listener
ExtDial(x, n) ==
    /\ up[n] /\ budget[n].xdial > 0 /\ x \in budget[n].xpeers
    /\ conns' = Append(conns, [d |-> x, a |-> n])
    /\ half' = [half EXCEPT ![Len(conns) + 1] = [s \in Sides |-> BothHalves]]
    /\ budget' = [budget EXCEPT ![n].xdial = @ - 1]
    /\ UNCHANGED <<up, nodeVars, accepted, net, histVars, failed>>

\* what an external peer's document may hold: one insert of its own
ExtDoc(x) == TextInsert(<<>>, x, 0, <<"e">>)

\* an external peer sends a DocumentSync frame on connection c
ExtSend(c) ==
    /\ c \in 1..Len(conns)
    /\ \E s \in Sides :
        /\ conns[c][s] \in Nodes /\ conns[c][Other(s)] \in ExtPeers
        /\ half[c][Other(s)].wr
        /\ budget[conns[c][s]].xsend > 0
        /\ Len(net[c][s]) < SockCap
        /\ net' = [net EXCEPT ![c][s] =
                     Append(@, [bad |-> FALSE,
                                p |-> [from |-> conns[c][Other(s)], k |-> 1,
                                       data |-> ExtDoc(conns[c][Other(s)])]])]
        /\ budget' = [budget EXCEPT ![conns[c][s]].xsend = @ - 1]
    /\ UNCHANGED <<up, nodeVars, conns, accepted, half, histVars, failed>>

\* a peer (or the network) delivers bytes that are no valid frame to side s of c
Corrupt(c, s) ==
    /\ c \in 1..Len(conns)
    /\ conns[c][s] \in Nodes
    /\ half[c][Other(s)].wr
    /\ budget[conns[c][s]].fault > 0
    /\ Len(net[c][s]) < SockCap
    /\ net' = [net EXCEPT ![c][s] = Append(@, [bad |-> TRUE])]
    /\ budget' = [budget EXCEPT ![conns[c][s]].fault = @ - 1]
    /\ UNCHANGED <<up, nodeVars, conns, accepted, half, histVars, failed>>

\* an external peer closes its end of connection c (or its process exits)
ExtClose(c) ==
    /\ c \in 1..Len(conns)
    /\ \E s \in Sides :
        /\ conns[c][s] \in Nodes /\ conns[c][Other(s)] \in ExtPeers
        /\ RemoteOpen(c, s)
        /\ budget[conns[c][s]].fault > 0
        /\ half' = [half EXCEPT ![c][Other(s)] = NoHalves]
        /\ budget' = [budget EXCEPT ![conns[c][s]].fault = @ - 1]
    /\ UNCHANGED <<up, nodeVars, conns, accepted, net, histVars, failed>>

\* ----------------------------------------------- outbound sync broadcaster
\* begin_outgoing_task: NewSocket(socket) => sockets.push(socket)
TakeSocket(n) ==
    /\ up[n] /\ bpc[n] = "recv"
    /\ outCh[n] # <<>> /\ Head(outCh[n]).kind = "sock"
    /\ sockets' = [sockets EXCEPT ![n] = Append(@, Head(outCh[n]).c)]
    /\ outCh' = [outCh EXCEPT ![n] = Tail(@)]
    /\ UNCHANGED <<up, doc, cpc, creg, stdinCh, stdoutCh, inFromCh, inToCh, stdinUp,
                   readers, bpc, breg, fwd, written, netVars, budget, histVars,
                   failed>>

\* begin_outgoing_task: DocumentData(data) => enter the for loop over sockets
TakeData(n) ==
    /\ up[n] /\ bpc[n] = "recv"
    /\ outCh[n] # <<>> /\ Head(outCh[n]).kind = "data"
    /\ outCh' = [outCh EXCEPT ![n] = Tail(@)]
    /\ IF sockets[n] = <<>>
       THEN UNCHANGED <<bpc, breg>>
       ELSE /\ bpc' = [bpc EXCEPT ![n] = "send"]
            /\ breg' = [breg EXCEPT ![n] = [msg |-> Head(outCh[n]).p, idx |-> 1]]
    /\ bcastLog' = [bcastLog EXCEPT ![n] =
                      Append(@, [k |-> Head(outCh[n]).p.k, pool |-> sockets[n]])]
    /\ UNCHANGED <<up, doc, cpc, creg, stdinCh, stdoutCh, inFromCh, inToCh, stdinUp,
                   readers, sockets, fwd, written, netVars, budget, egLog, sentLog,
                   nexp, nimp, reg, cmdLog, expLog, impLog, mergeLog, failed>>

\* faulty variant: the for loop stops after its first socket
NextSocketBreak(n) ==
    /\ bpc' = [bpc EXCEPT ![n] = "recv"]
    /\ breg' = [breg EXCEPT ![n] = Idle]

\* after one socket.send: the next socket of the loop, or back to rx.recv()
NextSocket(n) ==
    IF breg[n].idx = Len(sockets[n])
    THEN /\ bpc' = [bpc EXCEPT ![n] = "recv"]
         /\ breg' = [breg EXCEPT ![n] = Idle]
    ELSE /\ breg' = [breg EXCEPT ![n].idx = @ + 1]
         /\ UNCHANGED bpc

\* socket.send(message.clone()).await returned Ok
SendFrame(n) ==
    /\ up[n] /\ bpc[n] = "send"
    /\ LET c == sockets[n][breg[n].idx]
           s == SideOf(c, n)
       IN  /\ IF RemoteOpen(c, s) /\ PeerOf(c, n) \in Nodes
              THEN /\ Len(net[c][Other(s)]) < SockCap
                   /\ net' = [net EXCEPT ![c][Other(s)] =
                                Append(@, [bad |-> FALSE, p |-> breg[n].msg])]
              ELSE UNCHANGED net
           /\ sentLog' = [sentLog EXCEPT ![n] =
                            Append(@, [c |-> c, k |-> breg[n].msg.k,
                                       data |-> breg[n].msg.data])]
    /\ NextSocket(n)
    /\ UNCHANGED <<up, doc, cpc, creg, stdinCh, stdoutCh, inFromCh, inToCh, outCh,
                   stdinUp, readers, sockets, fwd, written, conns, accepted, half,
                   budget, egLog, nexp, nimp, reg, cmdLog, expLog, bcastLog, impLog, mergeLog,
                   failed>>

\* socket.send(..).await returned Err: unwrap panics, the task and its Vec are gone
SendFails(n) ==
    /\ up[n] /\ bpc[n] = "send"
    /\ ~RemoteOpen(sockets[n][breg[n].idx], SideOf(sockets[n][breg[n].idx], n))
    /\ bpc' = [bpc EXCEPT ![n] = "dead"]
    /\ breg' = [breg EXCEPT ![n] = Idle]
    /\ LET held == {sockets[n][i] : i \in 1..Len(sockets[n])}
                   \cup {outCh[n][i].c :
                           i \in {j \in 1..Len(outCh[n]) : outCh[n][j].kind = "sock"}}
       IN  half' = [c \in ConnIds |-> [s \in Sides |->
                      IF c \in held /\ s = SideOf(c, n)
                      THEN [half[c][s] EXCEPT !.wr = FALSE] ELSE half[c][s]]]
    /\ sockets' = [sockets EXCEPT ![n] = <<>>]
    /\ outCh' = [outCh EXCEPT ![n] = <<>>]
    /\ UNCHANGED <<up, doc, cpc, creg, stdinCh, stdoutCh, inFromCh, inToCh, stdinUp,
                   readers, fwd, written, conns, accepted, net, budget, histVars,
                   failed>>

\* --------------------------------------------------------- specification
Next ==
    \/ \E n \in Nodes : StdinRead(n)
    \/ \E n \in Nodes : StdoutWrite(n)
    \/ \E n \in Nodes : \E i \in 1..Len(fwd[n]) : Forward(n, i)
    \/ \E n \in Nodes : Accept(n)
    \/ \E n \in Nodes : AcceptRegRead(n)
    \/ \E n \in Nodes : AcceptRegWrite(n)
    \/ \E n \in Nodes : AcceptPeerAdded(n)
    \/ \E n \in Nodes : HandleAddPeer(n)
    \/ \E n \in Nodes : DialRegRead(n)
    \/ \E n \in Nodes : DialRegWrite(n)
    \/ \E n \in Nodes : DialPeerAdded(n)
    \/ \E n \in Nodes : HandlePeerAdded(n)
    \/ \E n \in Nodes : HandleChange(n)
    \/ \E n \in Nodes : HandleCreateDocument(n)
    \/ \E n \in Nodes : SendExport(n)
    \/ \E n \in Nodes : ImportData(n)
    \/ \E n \in Nodes : SpawnReader(n)
    \/ \E n \in Nodes : \E c \in ConnIds : ReadFrame(n, c)
    \/ \E n \in Nodes : \E c \in ConnIds : ReadMalformed(n, c)
    \/ \E n \in Nodes : \E c \in ConnIds : ReadEof(n, c)
    \/ \E c \in ConnIds : \E s \in Sides : Corrupt(c, s)
    \/ \E x \in ExtPeers : \E n \in Nodes : ExtDial(x, n)
    \/ \E c \in ConnIds : ExtSend(c)
    \/ \E c \in ConnIds : ExtClose(c)
    \/ \E n \in Nodes : TakeSocket(n)
    \/ \E n \in Nodes : TakeData(n)
    \/ \E n \in Nodes : SendFrame(n)
    \/ \E n \in Nodes : SendFails(n)

Spec == Init /\ [][Next]_vars

\* ------------------------------------------- two clients, one edit each
\* client 1 is told to dial client 2 and then to insert "foo" at 0; client 2 is
\* told to insert "bar" at 0; no external peer, no fault
Foo == <<"f", "o", "o">>
Bar == <<"b", "a", "r">>

InitPair == InitWith([n \in Nodes |->
                        IF n = 1 THEN Allow(1, 1, {2}, 0, 0, {}, 0)
                        ELSE Allow(1, 0, {}, 0, 0, {}, 0)])

PairLines(n) ==
    IF n = 1
    THEN IF budget[n].dial > 0 THEN {AddPeerMsg(2)}
         ELSE IF budget[n].edit > 0 THEN {ChangeMsg(InsertChange(0, Foo))}
         ELSE {}
    ELSE IF budget[n].edit > 0 THEN {ChangeMsg(InsertChange(0, Bar))}
         ELSE {}

PairRead(n) ==
    \E line \in PairLines(n) :
        LET cost == IF line.type = "add_peer" THEN "dial" ELSE "edit"
        IN  /\ budget' = [budget EXCEPT ![n][cost] = @ - 1]
            /\ StdinTake(n, line)

NextPair ==
    \/ \E n \in Nodes : PairRead(n)
    \/ \E n \in Nodes : StdoutWrite(n)
    \/ \E n \in Nodes : \E i \in 1..Len(fwd[n]) : Forward(n, i)
    \/ \E n \in Nodes : Accept(n)
    \/ \E n \in Nodes : AcceptRegRead(n)
    \/ \E n \in Nodes : AcceptRegWrite(n)
    \/ \E n \in Nodes : AcceptPeerAdded(n)
    \/ \E n \in Nodes : HandleAddPeer(n)
    \/ \E n \in Nodes : DialRegRead(n)
    \/ \E n \in Nodes : DialRegWrite(n)
    \/ \E n \in Nodes : DialPeerAdded(n)
    \/ \E n \in Nodes : HandleChange(n)
    \/ \E n \in Nodes : SendExport(n)
    \/ \E n \in Nodes : ImportData(n)
    \/ \E n \in Nodes : SpawnReader(n)
    \/ \E n \in Nodes : \E c \in ConnIds : ReadFrame(n, c)
    \/ \E n \in Nodes : TakeSocket(n)
    \/ \E n \in Nodes : TakeData(n)
    \/ \E n \in Nodes : SendFrame(n)

SpecPair == InitPair /\ [][NextPair]_vars

\* ------------------------------------- a host and a peer that joins late
\* client 1 (the host) is told to insert "ab", then to dial client 2, then to
\* insert "c" at 2; client 2 is told to insert "x" at 0 and, once it has been
\* shown a Change, to insert "y" at 4; no external peer, no fault
InitSync == InitWith([n \in Nodes |->
                        IF n = 1 THEN Allow(2, 1, {2}, 0, 0, {}, 0)
                        ELSE Allow(2, 0, {}, 0, 0, {}, 0)])

SyncLines(n) ==
    IF n = 1
    THEN IF budget[n].edit = 2 THEN {ChangeMsg(InsertChange(0, <<"a", "b">>))}
         ELSE IF budget[n].dial > 0 THEN {AddPeerMsg(2)}
         ELSE IF budget[n].edit = 1 THEN {ChangeMsg(InsertChange(2, <<"c">>))}
         ELSE {}
    ELSE IF budget[n].edit = 2 THEN {ChangeMsg(InsertChange(0, <<"x">>))}
         ELSE IF /\ budget[n].edit = 1
                 /\ \E i \in 1..Len(written[n]) : written[n][i].type = "change"
              THEN {ChangeMsg(InsertChange(4, <<"y">>))}
         ELSE {}

SyncRead(n) ==
    \E line \in SyncLines(n) :
        LET cost == IF line.type = "add_peer" THEN "dial" ELSE "edit"
        IN  /\ budget' = [budget EXCEPT ![n][cost] = @ - 1]
            /\ StdinTake(n, line)

NextSync ==
    \/ \E n \in Nodes : SyncRead(n)
    \/ \E n \in Nodes : StdoutWrite(n)
    \/ \E n \in Nodes : \E i \in 1..Len(fwd[n]) : Forward(n, i)
    \/ \E n \in Nodes : Accept(n)
    \/ \E n \in Nodes : AcceptRegRead(n)
    \/ \E n \in Nodes : AcceptRegWrite(n)
    \/ \E n \in Nodes : AcceptPeerAdded(n)
    \/ \E n \in Nodes : HandleAddPeer(n)
    \/ \E n \in Nodes : DialRegRead(n)
    \/ \E n \in Nodes : DialRegWrite(n)
    \/ \E n \in Nodes : DialPeerAdded(n)
    \/ \E n \in Nodes : HandleChange(n)
    \/ \E n \in Nodes : SendExport(n)
    \/ \E n \in Nodes : ImportData(n)
    \/ \E n \in Nodes : SpawnReader(n)
    \/ \E n \in Nodes : \E c \in ConnIds : ReadFrame(n, c)
    \/ \E n \in Nodes : TakeSocket(n)
    \/ \E n \in Nodes : TakeData(n)
    \/ \E n \in Nodes : SendFrame(n)

SpecSync == InitSync /\ [][NextSync]_vars

\* --------------------------------------------- one client, channels filled
\* more messages than a channel of capacity 10 holds
FloodLen == StdinCap + 1

\* a text long enough for one merge to produce FloodLen Changes
Page == [i \in 1..(2 * FloodLen) |-> "a"]

\* either the application writes FloodLen CreateDocument lines and nobody is
\* connected, or it writes one and an external peer that dialled in answers
\* the broadcast with FloodLen + 1 frames
InitFlood ==
    \/ InitWith([n \in Nodes |->
                   IF n = 1 THEN Allow(FloodLen, 0, {}, 0, 0, {}, 0) ELSE Quiet])
    \/ InitWith([n \in Nodes |->
                   IF n = 1 THEN Allow(1, 0, {}, 0, 1, {LastExt}, FloodLen + 1)
                   ELSE Quiet])

FloodRead(n) ==
    /\ budget[n].edit > 0
    /\ budget' = [budget EXCEPT ![n].edit = @ - 1]
    /\ StdinTake(n, CreateDocumentMsg(Page))

\* the document an external peer holds after it imported payload d and deleted
\* every other character
Thin(d) ==
    [i \in 1..Len(d) |-> IF i % 2 = 1 THEN [d[i] EXCEPT !.del = TRUE] ELSE d[i]]

\* an external peer answers a payload it received on connection c with a
\* DocumentSync frame of its own document; its frames are numbered
ExtReply(c) ==
    /\ c \in 1..Len(conns)
    /\ \E s \in Sides :
        LET n == conns[c][s]
            x == conns[c][Other(s)]
        IN  /\ n \in Nodes /\ x \in ExtPeers
            /\ half[c][Other(s)].wr
            /\ budget[n].xsend > 0
            /\ Len(net[c][s]) < SockCap
            /\ \E i \in 1..Len(sentLog[n]) :
                  /\ sentLog[n][i].c = c
                  /\ net' = [net EXCEPT ![c][s] =
                               Append(@, [bad |-> FALSE,
                                          p |-> [from |-> x,
                                                 k |-> FloodLen + 2 - budget[n].xsend,
                                                 data |-> Thin(sentLog[n][i].data)]])]
            /\ budget' = [budget EXCEPT ![n].xsend = @ - 1]
    /\ UNCHANGED <<up, nodeVars, conns, accepted, half, histVars, failed>>

NextFlood ==
    \/ \E n \in Nodes : FloodRead(n)
    \/ \E n \in Nodes : StdoutWrite(n)
    \/ \E n \in Nodes : \E i \in 1..Len(fwd[n]) : Forward(n, i)
    \/ \E x \in ExtPeers : \E n \in Nodes : ExtDial(x, n)
    \/ \E n \in Nodes : Accept(n)
    \/ \E n \in Nodes : AcceptRegRead(n)
    \/ \E n \in Nodes : AcceptRegWrite(n)
    \/ \E n \in Nodes : AcceptPeerAdded(n)
    \/ \E n \in Nodes : HandleCreateDocument(n)
    \/ \E n \in Nodes : SendExport(n)
    \/ \E n \in Nodes : ImportData(n)
    \/ \E n \in Nodes : SpawnReader(n)
    \/ \E n \in Nodes : \E c \in ConnIds : ReadFrame(n, c)
    \/ \E c \in ConnIds : ExtReply(c)
    \/ \E n \in Nodes : TakeSocket(n)
    \/ \E n \in Nodes : TakeData(n)
    \/ \E n \in Nodes : SendFrame(n)

SpecFlood == InitFlood /\ [][NextFlood]_vars

\* ------------------------------- two clients that both keep writing lines
\* the payloads one client can have on their way to the other while none is
\* imported: the incoming channel, the socket, the one the outgoing task
\* holds, the outgoing channel and the one the coordinator holds
JamLen == IncomingFromCap + SockCap + 1 + OutgoingCap + 1

Letter == <<"a">>

\* client 1 is told to dial client 2; once both have announced the peer, each
\* is told JamLen times to set the document to "a"
InitJam == InitWith([n \in Nodes |->
                       IF n = 1 THEN Allow(JamLen, 1, {2}, 0, 0, {}, 0)
                       ELSE IF n = 2 THEN Allow(JamLen, 0, {}, 0, 0, {}, 0)
                       ELSE Quiet])

\* nothing is on its way: no line waits, no coordinator is inside a handler
\* unless it is suspended there, and no router, reader, outgoing, forwarding or egress task can take a step
AtRest ==
    \A n \in Nodes :
        /\ stdinCh[n] = <<>>
        /\ cpc[n] = "select" \/ (cpc[n] = "bcast" /\ ~ENABLED SendExport(n))
        /\ stdoutCh[n] = <<>> /\ fwd[n] = <<>>
        /\ ~ENABLED (SpawnReader(n) \/ TakeSocket(n) \/ TakeData(n) \/ SendFrame(n))
        /\ \A c \in ConnIds : ~ENABLED ReadFrame(n, c)

JamLines(n) ==
    IF n = 1 /\ budget[n].dial > 0 THEN {AddPeerMsg(2)}
    ELSE IF /\ budget[n].edit > 0
            /\ \A m \in {1, 2} : written[m] # <<>>
            /\ AtRest
         THEN {CreateDocumentMsg(Letter)}
         ELSE {}

JamRead(n) ==
    \E line \in JamLines(n) :
        LET cost == IF line.type = "add_peer" THEN "dial" ELSE "edit"
        IN  /\ budget' = [budget EXCEPT ![n][cost] = @ - 1]
            /\ StdinTake(n, line)

\* the select of a client whose application has not written an edit yet takes
\* the incoming arm; afterwards this schedule always finds a line first
JamImport(n) ==
    /\ budget[n].edit = JamLen
    /\ ImportData(n)

NextJam ==
    \/ \E n \in Nodes : JamRead(n)
    \/ \E n \in Nodes : StdoutWrite(n)
    \/ \E n \in Nodes : \E i \in 1..Len(fwd[n]) : Forward(n, i)
    \/ \E n \in Nodes : Accept(n)
    \/ \E n \in Nodes : AcceptRegRead(n)
    \/ \E n \in Nodes : AcceptRegWrite(n)
    \/ \E n \in Nodes : AcceptPeerAdded(n)
    \/ \E n \in Nodes : HandleAddPeer(n)
    \/ \E n \in Nodes : DialRegRead(n)
    \/ \E n \in Nodes : DialRegWrite(n)
    \/ \E n \in Nodes : DialPeerAdded(n)
    \/ \E n \in Nodes : HandleCreateDocument(n)
    \/ \E n \in Nodes : SendExport(n)
    \/ \E n \in Nodes : JamImport(n)
    \/ \E n \in Nodes : SpawnReader(n)
    \/ \E n \in Nodes : \E c \in ConnIds : ReadFrame(n, c)
    \/ \E n \in Nodes : TakeSocket(n)
    \/ \E n \in Nodes : TakeData(n)
    \/ \E n \in Nodes : SendFrame(n)

SpecJam == InitJam /\ [][NextJam]_vars

\* ----------------------------------------------------------------- claims
Range(q) == {q[i] : i \in 1..Len(q)}

CountSent(n, c, k) ==
    Cardinality({i \in 1..Len(sentLog[n]) : sentLog[n][i].c = c /\ sentLog[n][i].k = k})

EditsHandled(n) ==
    Cardinality({i \in 1..Len(cmdLog[n]) :
                   cmdLog[n][i].type \in {"change", "create_document"}})

ChangesHandled(n) ==
    Cardinality({i \in 1..Len(cmdLog[n]) : cmdLog[n][i].type = "change"})

DataQueued(n) ==
    Cardinality({i \in 1..Len(outCh[n]) : outCh[n][i].kind = "data"})

\* every element of payload p is in document d, deleted there if deleted in p
Contains(d, p) ==
    \A i \in 1..Len(p) : \E j \in 1..Len(d) :
        /\ d[j].id = p[i].id /\ d[j].ch = p[i].ch /\ d[j].o = p[i].o
        /\ (p[i].del => d[j].del)

\* C1: no self-echo. Every Change event enqueued on the egress channel, and every
\* Change a forwarding task still holds, belongs to a merge that an import caused
\* (merge number 1..nimp); handling a local Change command produces none.
C1_NoSelfEcho ==
    \A n \in Nodes :
        /\ \A i \in 1..Len(egLog[n]) :
              egLog[n][i].msg.type = "change" => egLog[n][i].merge \in 1..nimp[n]
        /\ \A i \in 1..Len(fwd[n]) : fwd[n][i].merge \in 1..nimp[n]

\* a local Change was applied and exported, no import happened, egress holds no Change
C1_Witness ==
    \E n \in Nodes :
        /\ ChangesHandled(n) > 0 /\ Len(expLog[n]) > 0 /\ nimp[n] = 0
        /\ TextLen(doc[n]) > 0
        /\ \A i \in 1..Len(egLog[n]) : egLog[n][i].msg.type # "change"

\* C2: broadcast fan-out. The pool the outgoing task broadcasts a payload to is
\* exactly the set of peers registered when the coordinator enqueued it; no peer
\* is sent the payload twice, none outside the pool is sent it, every frame of
\* it carries the exported bytes, and once the broadcast is over each pool
\* member was sent exactly one frame. The outgoing task ends only after a
\* peer's connection has closed.
C2_FanOut ==
    \A n \in Nodes :
        /\ \A i \in 1..Len(bcastLog[n]) :
            LET b == bcastLog[n][i]
                e == CHOOSE x \in Range(expLog[n]) : x.k = b.k
                over == i < Len(bcastLog[n]) \/ bpc[n] = "recv"
            IN  /\ Range(b.pool) = e.regd
                /\ Cardinality(Range(b.pool)) = Len(b.pool)
                /\ \A c \in ConnIds :
                      CountSent(n, c, b.k) <= (IF c \in Range(b.pool) THEN 1 ELSE 0)
                /\ over => \A c \in Range(b.pool) : CountSent(n, c, b.k) = 1
                /\ \A j \in 1..Len(sentLog[n]) :
                      sentLog[n][j].k = b.k => sentLog[n][j].data = e.data
        /\ bpc[n] = "dead" =>
              \E c \in 1..Len(conns) :
                  n \in {conns[c].d, conns[c].a} /\ ~RemoteOpen(c, SideOf(c, n))

\* a broadcast to a pool of two peers is over: one frame each
C2_Witness ==
    \E n \in Nodes : \E i \in 1..Len(bcastLog[n]) :
        /\ bpc[n] = "recv"
        /\ Len(bcastLog[n][i].pool) = 2
        /\ \A c \in Range(bcastLog[n][i].pool) : CountSent(n, c, bcastLog[n][i].k) = 1

\* C3: an import enqueues nothing for the outgoing task. Every payload queued
\* for or taken by the outgoing task was enqueued by the handler of a stdin
\* command, so the frames a node sends are bounded by its local edits.
C3_ImportNoRebroadcast ==
    \A n \in Nodes :
        /\ Len(bcastLog[n]) + DataQueued(n) <= Len(expLog[n])
        /\ Len(expLog[n]) <= EditsHandled(n)
        /\ Len(sentLog[n]) <= Len(expLog[n]) * Len(conns)

\* a payload was imported while a peer sat in the pool, and nothing was sent
C3_Witness ==
    \E n \in Nodes :
        /\ nimp[n] > 0 /\ TextLen(doc[n]) > 0
        /\ sockets[n] # <<>>
        /\ outCh[n] = <<>> /\ bcastLog[n] = <<>> /\ sentLog[n] = <<>>

\* C4: each mutation a stdin command makes is followed by exactly one payload,
\* the export of the document as mutated, enqueued before the coordinator
\* serves anything else; every payload enqueued or sent is contained in the
\* document its coordinator holds.
C4_MutationThenExport ==
    \A n \in Nodes :
        /\ EditsHandled(n) = Len(expLog[n]) + (IF cpc[n] = "bcast" THEN 1 ELSE 0)
        /\ nexp[n] = EditsHandled(n)
        /\ cpc[n] = "bcast" => creg[n].data.data = ExportFrom(doc[n])
        /\ \A i \in 1..Len(expLog[n]) : Contains(doc[n], expLog[n][i].data)
        /\ \A i \in 1..Len(sentLog[n]) : Contains(doc[n], sentLog[n][i].data)

\* an edit was exported and sent, and the node has imported a peer's payload too
C4_Witness ==
    \E n \in Nodes :
        /\ cpc[n] = "select" /\ EditsHandled(n) > 0
        /\ sentLog[n] # <<>> /\ nimp[n] > 0
        /\ doc[n] # sentLog[n][1].data

\* C5: a PeerAdded event is enqueued for a connection only after its read half
\* was handed to the incoming task and its write half to the outgoing task:
\* the read half sits in the channel, has its read loop or has ended it; the
\* write half sits in the channel or in the pool (unless the outgoing task died).
C5_PeerAddedAfterRegistration ==
    \A n \in Nodes : \A i \in 1..Len(egLog[n]) :
        egLog[n][i].msg.type = "peer_added" =>
            LET c == egLog[n][i].c
                s == SideOf(c, n)
            IN  /\ reg[c][s].rd /\ reg[c][s].wr
                /\ egLog[n][i].msg.address = PeerOf(c, n)
                /\ c \in readers[n] \/ c \in Range(inToCh[n]) \/ ~half[c][s].rd
                /\ \/ c \in Range(sockets[n])
                   \/ [kind |-> "sock", c |-> c] \in Range(outCh[n])
                   \/ bpc[n] = "dead"

\* PeerAdded was emitted for a dialled and for an accepted connection
C5_Witness ==
    \E n \in Nodes : \E i, j \in 1..Len(egLog[n]) :
        /\ egLog[n][i].msg.type = "peer_added" /\ conns[egLog[n][i].c].d = n
        /\ egLog[n][j].msg.type = "peer_added" /\ conns[egLog[n][j].c].a = n

\* each client has imported the other's payload
Exchanged == <<1, 1>> \in impLog[2] /\ <<2, 1>> \in impLog[1]

\* C6: two connected clients, one inserts "foo" at 0 and the other "bar" at 0;
\* once each has imported the other's payload, the two document texts are the
\* same six characters, whatever the order of the steps in between (the case
\* where the second client imports "foo" before inserting "bar" included).
C6_Convergence ==
    Exchanged =>
        /\ Text(doc[1]) = Text(doc[2])
        /\ Len(Text(doc[1])) = Len(Foo) + Len(Bar)

\* client 2 inserted "bar" after importing "foo" (its ids come after foo's),
\* both payloads have been imported, and both texts read "barfoo"
C6_Witness ==
    /\ Exchanged
    /\ \A j \in 1..Len(doc[2]) :
          doc[2][j].id[2] = 2 => doc[2][j].id[1] > Len(Foo)
    /\ Text(doc[1]) = Bar \o Foo
    /\ Text(doc[2]) = Bar \o Foo

\* the read loop of connection c on node n has run and is over
ReaderEnded(n, c) ==
    /\ c \in 1..Len(conns) /\ n \in {conns[c].d, conns[c].a}
    /\ reg[c][SideOf(c, n)].rd
    /\ c \notin readers[n] /\ c \notin Range(inToCh[n])

\* broadcast i of node n is over: the outgoing task is no longer in its for loop
BroadcastOver(n, i) == i < Len(bcastLog[n]) \/ bpc[n] # "send"

Reported(n, kind) == \E i \in 1..Len(egLog[n]) : egLog[n][i].msg.type = kind

\* C7: the end of one connection's read loop (malformed frame, decode failure,
\* stream closure) leaves the rest running: the coordinator's sends still
\* succeed, and every broadcast that is over has reached every other pool
\* member whose connection is open.
C7_ReadFailureIsolated ==
    \A n \in Nodes : \A c \in ConnIds :
        ReaderEnded(n, c) =>
            /\ failed[n] # "chan"
            /\ \A i \in 1..Len(bcastLog[n]) :
                  BroadcastOver(n, i) =>
                      \A o \in Range(bcastLog[n][i].pool) \ {c} :
                          RemoteOpen(o, SideOf(o, n)) =>
                              CountSent(n, o, bcastLog[n][i].k) = 1

\* C8: a failed dial is reported as PeerConnectionError, no PeerAdded follows
\* it, and the coordinator keeps running.
C8_DialFailureReported ==
    \A n \in Nodes :
        failed[n] = "dial" => up[n] /\ Reported(n, "peer_connection_error")

\* C9: a send failure on one pool member leaves the outgoing task serving the
\* others: every broadcast that is over has reached every pool member whose
\* connection is open.
C9_SendFailureIsolated ==
    \A n \in Nodes : \A i \in 1..Len(bcastLog[n]) :
        BroadcastOver(n, i) =>
            \A c \in Range(bcastLog[n][i].pool) :
                RemoteOpen(c, SideOf(c, n)) => CountSent(n, c, bcastLog[n][i].k) = 1

\* C10: a Change the merge engine rejects is reported as DocumentOperationError
\* and the coordinator keeps processing events.
C10_RejectedChangeReported ==
    \A n \in Nodes :
        failed[n] = "op" => up[n] /\ Reported(n, "document_operation_error")

\* C11: a line that does not parse is skipped: whatever line the stdin task
\* reads, the task is still reading afterwards (as long as the process runs).
C11_IngressSurvivesBadLine ==
    [][\A n \in Nodes : (stdinUp[n] /\ up'[n]) => stdinUp'[n]]_vars

\* the coordinator takes a PeerAdded message from the head of the stdin channel
TakesPeerAdded(n) ==
    /\ stdinCh[n] # <<>> /\ Head(stdinCh[n]).type = "peer_added"
    /\ stdinCh'[n] = Tail(stdinCh[n])

\* C14: handling a PeerAdded that arrived on stdin changes neither the document,
\* nor the connections and the two pools, nor the outgoing queue, nor the
\* egress queue, and leaves the coordinator running at its select.
C14_PeerAddedNotApplied ==
    [][\A n \in Nodes :
          TakesPeerAdded(n) =>
              /\ doc'[n] = doc[n]
              /\ conns' = conns /\ half' = half
              /\ readers'[n] = readers[n] /\ inToCh'[n] = inToCh[n]
              /\ sockets'[n] = sockets[n] /\ outCh'[n] = outCh[n]
              /\ stdoutCh'[n] = stdoutCh[n] /\ fwd'[n] = fwd[n]
              /\ up'[n] /\ cpc'[n] = "select"]_vars

\* a PeerAdded from stdin was handled and a later command was handled after it
C14_Witness ==
    \E n \in Nodes : \E i \in 1..Len(cmdLog[n]) : \E j \in 1..Len(cmdLog[n]) :
        /\ i < j /\ up[n]
        /\ cmdLog[n][i].type = "peer_added"
        /\ cmdLog[n][j].type \in {"change", "create_document", "add_peer"}
        /\ \A e \in Range(egLog[n]) : e.msg # cmdLog[n][i]

\* entry j of node n's egress history announces connection c
Announces(n, j, c) ==
    egLog[n][j].msg.type = "peer_added" /\ egLog[n][j].c = c

\* C18: on every node, a Change event that comes from a payload received on
\* connection c is enqueued on the egress channel after the PeerAdded event of
\* c; a forwarding task that still holds such a Change finds the PeerAdded of
\* c already enqueued.
C18_PeerAddedBeforeChanges ==
    \A n \in Nodes :
        /\ \A i \in 1..Len(egLog[n]) :
              egLog[n][i].msg.type = "change" =>
                  \E j \in 1..(i - 1) : Announces(n, j, egLog[n][i].c)
        /\ \A t \in Range(fwd[n]) :
              \E j \in 1..Len(egLog[n]) : Announces(n, j, t.via)

\* a Change from a payload received on a connection has been enqueued, on a
\* node that has announced connections
C18_Witness ==
    \E n \in Nodes : \E i \in 1..Len(egLog[n]) :
        /\ egLog[n][i].msg.type = "change"
        /\ egLog[n][i].c \in 1..Len(conns)
        /\ \E j \in 1..(i - 1) : Announces(n, j, egLog[n][i].c)

\* the Change events of merge i of node n: those enqueued on the egress channel,
\* in the order they were enqueued, and those its forwarding task still holds
EnqueuedOf(n, i) ==
    LET es == SelectSeq(egLog[n],
                        LAMBDA e : e.msg.type = "change" /\ e.merge = i)
    IN  [j \in 1..Len(es) |-> es[j].msg.change]

PendingOf(n, i) ==
    IF \E t \in Range(fwd[n]) : t.merge = i
    THEN (CHOOSE t \in Range(fwd[n]) : t.merge = i).changes
    ELSE <<>>

\* the sum of the retain spans among the first k spans
RECURSIVE Retained(_, _)
Retained(diffs, k) ==
    IF k = 0 THEN 0
    ELSE Retained(diffs, k - 1) + (IF diffs[k].t = "retain" THEN diffs[k].n ELSE 0)

\* the Change of span k, if it is an insert or a delete span
RECURSIVE EmittedFrom(_, _)
EmittedFrom(diffs, k) ==
    IF k > Len(diffs) THEN <<>>
    ELSE (IF diffs[k].t = "insert"
          THEN <<[type |-> "insert", index |-> Retained(diffs, k - 1),
                  text |-> diffs[k].s]>>
          ELSE IF diffs[k].t = "delete"
          THEN <<[type |-> "delete", index |-> Retained(diffs, k - 1),
                  len |-> diffs[k].n]>>
          ELSE <<>>) \o EmittedFrom(diffs, k + 1)

\* C15: for every import-triggered merge, the Change events enqueued so far
\* followed by those its forwarding task still holds are, in span order, one
\* Insert per insert span and one Delete per delete span, each with the sum of
\* the retain spans before it as its index.
C15_WalkOffsets ==
    \A n \in Nodes : \A i \in 1..Len(mergeLog[n]) :
        EnqueuedOf(n, i) \o PendingOf(n, i) = EmittedFrom(mergeLog[n][i].diffs, 1)

\* a merge whose diff is insert, retain, insert has had both Changes enqueued
C15_Witness ==
    \E n \in Nodes : \E i \in 1..Len(mergeLog[n]) :
        LET d == mergeLog[n][i].diffs
        IN  /\ Len(d) = 3
            /\ d[1].t = "insert" /\ d[2].t = "retain" /\ d[3].t = "insert"
            /\ Len(EnqueuedOf(n, i)) = 2
            /\ EnqueuedOf(n, i)[2].index = d[2].n

\* a mirror of the text after one Change is applied to it
ApplyChange(t, ch) ==
    IF ch.type = "insert"
    THEN SubSeq(t, 1, ch.index) \o ch.text \o SubSeq(t, ch.index + 1, Len(t))
    ELSE SubSeq(t, 1, ch.index) \o SubSeq(t, ch.index + ch.len + 1, Len(t))

RECURSIVE ApplyChanges(_, _)
ApplyChanges(t, chs) ==
    IF chs = <<>> THEN t ELSE ApplyChanges(ApplyChange(t, Head(chs)), Tail(chs))

\* C16: once all Changes of a merge are enqueued, applying them in order to
\* the text before the merge gives the text after the merge.
C16_MirrorConsistent ==
    \A n \in Nodes : \A i \in 1..Len(mergeLog[n]) :
        PendingOf(n, i) = <<>> /\ EnqueuedOf(n, i) # <<>> =>
            ApplyChanges(mergeLog[n][i].old, EnqueuedOf(n, i)) = mergeLog[n][i].new

\* C17: the Changes on the egress channel appear in the order of their merges.
C17_MergesNotInterleaved ==
    \A n \in Nodes : \A i \in 1..Len(egLog[n]) : \A j \in 1..Len(egLog[n]) :
        /\ i < j
        /\ egLog[n][i].msg.type = "change" /\ egLog[n][j].msg.type = "change"
        => egLog[n][i].merge <= egLog[n][j].merge

\* C20 as stated, for any peer: once the peer has imported the payload the
\* host made for inserting "c", the peer's text is the host's text of that
\* export.
C20_AnyJoinerEqualsHost ==
    \A i \in 1..Len(mergeLog[2]) :
        LET m == mergeLog[2][i]
        IN  m.from = 1 /\ m.k = 2 =>
                \E e \in Range(expLog[1]) : e.k = 2 /\ m.new = Text(e.data)

\* C20: the peer that joined after the host wrote "ab" and that has written
\* nothing itself holds, once it has imported the host's next payload (the one
\* made for inserting "c"), the host's whole text.
C20_LateJoinerCatchUp ==
    \A i \in 1..Len(mergeLog[2]) :
        LET m == mergeLog[2][i]
        IN  m.from = 1 /\ m.k = 2 /\ m.old = <<>> =>
                /\ m.new = <<"a", "b", "c">>
                /\ \E e \in Range(expLog[1]) : e.k = 2 /\ m.new = Text(e.data)

\* the host exported once before the connection existed and once after, and
\* the empty peer imported the second payload
C20_Witness ==
    /\ Len(bcastLog[1]) = 2
    /\ bcastLog[1][1].pool = <<>> /\ bcastLog[1][2].pool # <<>>
    /\ \E i \in 1..Len(mergeLog[2]) :
          /\ mergeLog[2][i].from = 1 /\ mergeLog[2][i].k = 2
          /\ mergeLog[2][i].old = <<>>
          /\ Text(doc[2]) = <<"a", "b", "c">>

\* the payload numbers of a queue of payloads
KsOf(q) == [i \in 1..Len(q) |-> q[i].k]

DataOf(q) == SelectSeq(q, LAMBDA m : m.kind = "data")

\* the frames waiting in the sockets towards node n, connection by connection
RECURSIVE ArrivingAt(_, _)
ArrivingAt(n, c) ==
    IF c > Len(conns) THEN <<>>
    ELSE (IF n \in {conns[c].d, conns[c].a}
          THEN [i \in 1..Len(net[c][SideOf(c, n)]) |-> net[c][SideOf(c, n)][i].p]
          ELSE <<>>) \o ArrivingAt(n, c + 1)

\* nothing enqueued is lost or overtaken: what was enqueued is what was taken
\* followed by what is queued (and by what a suspended producer still holds)
Lossless(n) ==
    /\ Len(stdinCh[n]) <= StdinCap /\ Len(stdoutCh[n]) <= StdoutCap
    /\ Len(inFromCh[n]) <= IncomingFromCap /\ Len(inToCh[n]) <= IncomingToCap
    /\ Len(outCh[n]) <= OutgoingCap
    /\ [i \in 1..Len(egLog[n]) |-> egLog[n][i].msg] = written[n] \o stdoutCh[n]
    /\ KsOf(expLog[n]) = KsOf(bcastLog[n]) \o [i \in 1..Len(DataOf(outCh[n])) |->
                                                 DataOf(outCh[n])[i].p.k]
    /\ LET ks == KsOf(mergeLog[n]) \o KsOf(inFromCh[n]) \o KsOf(ArrivingAt(n, 1))
       IN  ks = [i \in 1..Len(ks) |-> i]
    /\ \A i \in 1..Len(mergeLog[n]) :
          EnqueuedOf(n, i) \o PendingOf(n, i) = EmittedFrom(mergeLog[n][i].diffs, 1)

\* one step of a channel: untouched, one message appended while there is room,
\* or the head taken
FifoStep(old, new, cap) ==
    \/ new = old
    \/ Len(old) < cap /\ Len(new) = Len(old) + 1 /\ SubSeq(new, 1, Len(old)) = old
    \/ old # <<>> /\ new = Tail(old)

Fifo(n) ==
    /\ FifoStep(stdinCh[n], stdinCh'[n], StdinCap)
    /\ FifoStep(stdoutCh[n], stdoutCh'[n], StdoutCap)
    /\ FifoStep(inFromCh[n], inFromCh'[n], IncomingFromCap)
    /\ FifoStep(inToCh[n], inToCh'[n], IncomingToCap)
    /\ FifoStep(outCh[n], outCh'[n], OutgoingCap)
    /\ Len(cmdLog'[n]) + Len(stdinCh'[n]) + budget'[n].edit
         = Len(cmdLog[n]) + Len(stdinCh[n]) + budget[n].edit

\* C12: every channel stays within its capacity, changes only by an append at
\* the tail while there is room or by the removal of its head, and loses
\* nothing: the lines written and the egress queue are the enqueued messages in
\* enqueue order, the payloads taken by the outgoing task and those queued are
\* the exports in order, the frames imported, queued and arriving are numbered
\* consecutively, every stdin line read is queued or handled, and a
\* forwarding task that waits for room still holds its remaining Changes.
C12_ChannelsLosslessFifo ==
    /\ [](\A n \in Nodes : Lossless(n))
    /\ [][\A n \in Nodes : Fifo(n)]_vars

\* the egress channel and the incoming channel are both full, a forwarding
\* task waits with Changes left and a frame waits in the socket
C12_Witness ==
    \E n \in Nodes :
        /\ Len(stdoutCh[n]) = StdoutCap /\ fwd[n] # <<>>
        /\ Len(inFromCh[n]) = IncomingFromCap /\ ArrivingAt(n, 1) # <<>>

\* C13: a payload imported again leaves the text as the first import left it,
\* and importing any queued payload, or any payload the client exported, twice
\* into a document gives the text that importing it once gives.
C13_ImportIdempotent ==
    \A n \in Nodes :
        /\ \A i \in 1..Len(mergeLog[n]) : \A j \in 1..Len(mergeLog[n]) :
              i < j /\ mergeLog[n][i].data = mergeLog[n][j].data =>
                  /\ mergeLog[n][j].new = mergeLog[n][i].new
                  /\ mergeLog[n][j].diffs = <<>>
        /\ \A m \in Range(inFromCh[n]) :
              Text(Import(Import(doc[n], m.data), m.data))
                  = Text(Import(doc[n], m.data))
        /\ \A e \in Range(expLog[n]) : \A d \in {<<>>, doc[n]} :
              Text(Import(Import(d, e.data), e.data)) = Text(Import(d, e.data))

\* the same payload was imported twice; the first import changed the text
C13_Witness ==
    \E n \in Nodes :
        /\ Len(mergeLog[n]) >= 2
        /\ mergeLog[n][1].data = mergeLog[n][2].data
        /\ mergeLog[n][1].new # mergeLog[n][1].old
        /\ Text(doc[n]) = mergeLog[n][1].new

\* both coordinators are suspended in outgoing_tx.send and no task of either
\* client, and nothing around them, can take a step
Jammed ==
    /\ \A n \in {1, 2} : up[n] /\ cpc[n] = "bcast"
    /\ ~ENABLED Next

\* C19: two connected clients never reach a state in which both coordinators
\* are suspended on the full outgoing channel while no task can take a step
\* (where the payloads they enqueued are never imported and the lines still
\* queued are never handled).
C19_NoBackpressureDeadlock == ~Jammed

====

